---- MODULE Spec2Model ----
(***************************************************************************)
(* Model of the identity generator page (src/app/page.tsx) and of the      *)
(* generator library it calls (@/lib/generator, @/lib/countryData), whose  *)
(* behaviour is taken from spec.md because its source is not part of the   *)
(* tree.                                                                   *)
(*                                                                         *)
(* Strings that the program inspects character by character (names,        *)
(* phones, passwords, domains, emails) are sequences of Unicode code       *)
(* points; strings that are only compared (country codes, status words)    *)
(* are TLA+ strings.                                                       *)
(***************************************************************************)
EXTENDS Integers, Sequences, FiniteSets, TLC

VARIABLES
    selectedCountry,   \* useState<CountryConfig>: index into countries
    selectedDomain,    \* useState<string>: "random" or a domain
    userInfo,          \* useState<UserInfo>: the displayed identity
    ipInfo,            \* useState: { ip, country }
    isInitialized,     \* useState<boolean>
    isGenerating,      \* useState<boolean>
    copiedField,       \* useState<string | null>
    saveStatus,        \* useState<'idle' | 'saving' | 'saved'>
    isSaved,           \* useState<boolean>
    showCountrySheet,  \* useState<boolean>
    showDomainSheet,   \* useState<boolean>
    isMounted,         \* the page component is mounted
    lookup,            \* initializeApp: "fetching" until the race settles
    idleQueue,         \* requestIdleCallback callbacks not yet run (FIFO)
    savedEmails,       \* identityData store: emails of the saved identities
    pendingSaves,      \* handleSaveIdentity: 300 ms timers not yet fired (FIFO)
    saveTimer,         \* saveTimerRef: the 2000 ms timer is pending
    allDomains,        \* useMemo(() => getAllDomains())
    searchQuery,       \* DomainList useState
    filteredQuery,     \* DomainList useState
    visibleCount,      \* DomainList useState
    debounceTimer,     \* DomainList debounceTimerRef: pending timer or none
    origin,            \* history: per field, the call (inputs and seed) it is from
    shown,             \* history: the call that produced userInfo
    lastError,         \* history: what the latest generation call threw
    answer,            \* history: the body the lookup delivered, if any
    saveRequested,     \* history: a save of the displayed identity was accepted
    clipboardWrites,   \* navigator.clipboard.writeText promises not yet settled
    copyTimers,        \* copyToClipboard: 1500 ms timers not yet fired (FIFO)
    copyResult,        \* history: how the latest clipboard write settled
    inboxStatus,       \* useState<'idle' | 'opening'>
    inboxTimers,       \* handleInboxClick: 600 ms timers not yet fired (FIFO)
    lastOpened,        \* history: the login of the inbox window opened last
    probe              \* result of the last direct generator call

vars == <<selectedCountry, selectedDomain, userInfo, ipInfo, isInitialized,
          isGenerating, copiedField, saveStatus, isSaved, showCountrySheet,
          showDomainSheet, isMounted, lookup, idleQueue, savedEmails,
          allDomains, searchQuery, filteredQuery, visibleCount, debounceTimer,
          origin, shown, lastError, probe, pendingSaves, saveTimer, answer,
          saveRequested, clipboardWrites, copyTimers, copyResult, inboxStatus,
          inboxTimers, lastOpened>>

copyVars == <<clipboardWrites, copyTimers, copyResult>>

inboxVars == <<inboxStatus, inboxTimers, lastOpened>>

pageVars == <<selectedCountry, selectedDomain, userInfo, ipInfo, isInitialized,
              isGenerating, copiedField, saveStatus, isSaved, showCountrySheet,
              showDomainSheet, isMounted, lookup, idleQueue, savedEmails,
              origin, shown, lastError, pendingSaves, saveTimer, answer,
              saveRequested, copyVars, inboxVars>>

pageVars_but_lookup ==
    <<selectedCountry, selectedDomain, userInfo, ipInfo, isInitialized,
      isGenerating, copiedField, saveStatus, isSaved, showCountrySheet,
      showDomainSheet, isMounted, idleQueue, savedEmails, origin, shown,
      lastError, pendingSaves, saveTimer, answer, saveRequested, copyVars,
      inboxVars>>

listVars == <<searchQuery, filteredQuery, visibleCount, debounceTimer>>

-----------------------------------------------------------------------------
(* Bounds of the model.                                                    *)

\* seeds of the random source a generation call of the page may draw
MaxSeed == 1
\* idle callbacks pending at once
MaxPending == 2
\* 300 ms save timers pending at once
MaxSaves == 2
\* domains of the registry the domain list pages through
RegistrySize == 120
\* clipboard writes pending at once
MaxWrites == 2
\* saves requested in a run in which the country changes between them
MaxStored == 1
\* seeds of the random source tried on the generators directly
MaxProbeSeed == 39

-----------------------------------------------------------------------------
(* Characters and strings.                                                 *)

\* the printable ASCII characters, code points 32..126 in order (the three
\* that a TLA+ string cannot hold are spelled out)
Printable ==
    << " ", "!", "dquote", "#", "$", "%", "&", "'", "(", ")", "*", "+", ",", "-",
       ".", "/", "0", "1", "2", "3", "4", "5", "6", "7", "8", "9", ":", ";",
       "<", "=", ">", "?", "@", "A", "B", "C", "D", "E", "F", "G", "H", "I",
       "J", "K", "L", "M", "N", "O", "P", "Q", "R", "S", "T", "U", "V", "W",
       "X", "Y", "Z", "[", "backslash", "]", "^", "_", "backtick", "a", "b", "c", "d", "e",
       "f", "g", "h", "i", "j", "k", "l", "m", "n", "o", "p", "q", "r", "s",
       "t", "u", "v", "w", "x", "y", "z", "{", "|", "}", "~" >>

\* code point of a printable ASCII character
Ord(c) == 31 + CHOOSE i \in 1..Len(Printable) : Printable[i] = c

\* the string whose characters are cs
Str(cs) == [i \in 1..Len(cs) |-> Ord(cs[i])]

IsUpper(c) == c >= 65 /\ c <= 90
IsLower(c) == c >= 97 /\ c <= 122
IsDigit(c) == c >= 48 /\ c <= 57
IsAsciiAlnum(c) == IsUpper(c) \/ IsLower(c) \/ IsDigit(c)
IsWhitespace(c) == c \in {9, 10, 13, 32}

\* String.prototype.toLowerCase on one code point (ASCII and Latin-1)
LowerChar(c) ==
    IF IsUpper(c) \/ (c >= 192 /\ c <= 222 /\ c # 215) THEN c + 32 ELSE c

ToLowerCase(s) == [i \in 1..Len(s) |-> LowerChar(s[i])]

\* String.prototype.includes
Includes(s, q) ==
    \E k \in 0..(Len(s) - Len(q)) : SubSeq(s, k + 1, k + Len(q)) = q

\* position of the first occurrence of c in s, 0 when there is none
IndexOf(s, c) ==
    IF \E i \in 1..Len(s) : s[i] = c
    THEN CHOOSE i \in 1..Len(s) : s[i] = c /\ \A j \in 1..(i - 1) : s[j] # c
    ELSE 0

\* email.split(at)[0]
LocalPart(email) ==
    IF IndexOf(email, 64) = 0 THEN email
    ELSE SubSeq(email, 1, IndexOf(email, 64) - 1)

\* the text after the first '@'
DomainPart(email) ==
    IF IndexOf(email, 64) = 0 THEN << >>
    ELSE SubSeq(email, IndexOf(email, 64) + 1, Len(email))

-----------------------------------------------------------------------------
(* The random source.  Every generator takes the raw draws it consumes as  *)
(* an argument; a seed determines a whole stream of draws.                 *)

\* the k-th draw of the stream started from seed (a multiplicative hash
\* modulo the prime 65537)
Draw(seed, k) == ((seed + 1) * (7919 * k + 104729)) % 65537

\* the draws one generation call consumes, in the order the generators run
SeededDraws(seed) ==
    [ name     |-> << Draw(seed, 1), Draw(seed, 2) >>,
      birthday |-> Draw(seed, 3),
      phone    |-> [i \in 1..10 |-> Draw(seed, 3 + i)],
      password |-> [i \in 1..23 |-> Draw(seed, 13 + i)],
      email    |-> << Draw(seed, 37), Draw(seed, 38) >> ]

-----------------------------------------------------------------------------
(* Country Registry (static table).                                        *)

US ==
    [ code |-> "US", name |-> "United States",
      dialPrefix |-> Str(<< "+", "1" >>),
      phoneFormat |-> Str(<< "+", "1", " ", "(", "X", "X", "X", ")", " ",
                             "X", "X", "X", "-", "X", "X", "X", "X" >>),
      firstNamePool |-> << Str(<< "J", "o", "h", "n" >>),
                           Str(<< "M", "a", "r", "y" >>) >>,
      lastNamePool  |-> << Str(<< "S", "m", "i", "t", "h" >>),
                           Str(<< "O", "'", "N", "e", "i", "l" >>) >> ]

\* a locale whose names hold non-ASCII letters: Rene', Zoe", Lefe`vre with
\* their accents (code points 233, 235, 232)
FR ==
    [ code |-> "FR", name |-> "France",
      dialPrefix |-> Str(<< "+", "3", "3" >>),
      phoneFormat |-> Str(<< "+", "3", "3", " ", "X", " ", "X", "X", " ",
                             "X", "X", " ", "X", "X", " ", "X", "X" >>),
      firstNamePool |-> << Str(<< "R", "e", "n" >>) \o << 233 >>,
                           Str(<< "Z", "o" >>) \o << 235 >> >>,
      lastNamePool  |-> << Str(<< "L", "e", "f" >>) \o << 232 >>
                              \o Str(<< "v", "r", "e" >>) >> ]

\* a defective entry (its last-name pool is empty), kept in the table so
\* that the generators' failure path is exercised
XX ==
    [ code |-> "XX", name |-> "Nowhere",
      dialPrefix |-> Str(<< "+", "0" >>),
      phoneFormat |-> Str(<< "+", "0", " ", "X", "X", "X" >>),
      firstNamePool |-> << Str(<< "A", "n", "n" >>) >>,
      lastNamePool  |-> << >> ]

countries == << US, FR, XX >>

\* what a lookup that finds nothing returns
NoCountry == 0

\* index of the entry with this code, NoCountry when there is none
getCountryConfig(code) ==
    IF \E i \in 1..Len(countries) : countries[i].code = code
    THEN CHOOSE i \in 1..Len(countries) : countries[i].code = code
    ELSE NoCountry

-----------------------------------------------------------------------------
(* Domain Registry (static pool) and the sentinel.                         *)

random == Str(<< "r", "a", "n", "d", "o", "m" >>)

\* JavaScript's undefined, where a string is expected
undefined == << -1 >>

\* the last entry is not a plausible domain (no dot, a blank): an explicit
\* choice of it makes the email composer fail
getAllDomains ==
    << Str(<< "A", "b", ".", "i", "o" >>),
       Str(<< "n", " ", "d" >>) >>

isRandomSentinel(value) == value = random

\* syntactically plausible: contains a dot, no whitespace
IsValidDomain(d) ==
    /\ \E i \in 1..Len(d) : d[i] = 46
    /\ \A i \in 1..Len(d) : ~IsWhitespace(d[i])

-----------------------------------------------------------------------------
(* The generators.  A generator that throws returns [ok |-> FALSE] with    *)
(* the error's tag.                                                        *)

Throw(tag) == [ok |-> FALSE, error |-> tag]

\* one entry of a non-empty pool, chosen by a draw
Pick(pool, r) == pool[(r % Len(pool)) + 1]

\* Name Generator: rs = two draws
generateName(code, rs) ==
    LET i == getCountryConfig(code) IN
    IF i = NoCountry THEN Throw("NotFoundError")
    ELSE IF countries[i].firstNamePool = << >> \/ countries[i].lastNamePool = << >>
    THEN Throw("ConfigError")
    ELSE [ ok |-> TRUE,
           firstName |-> Pick(countries[i].firstNamePool, rs[1]),
           lastName  |-> Pick(countries[i].lastNamePool, rs[2]) ]

\* policy constants of the Birthday Generator
minAge == 18
maxAge == 65

IsLeapYear(y) == (y % 4 = 0 /\ y % 100 # 0) \/ y % 400 = 0

DaysInMonth(y, m) ==
    IF m = 2 THEN (IF IsLeapYear(y) THEN 29 ELSE 28)
    ELSE IF m \in {4, 6, 9, 11} THEN 30 ELSE 31

\* days from 1970-01-01 to the civil date <<y, m, d>>
DaysFromCivil(date) ==
    LET y   == IF date[2] <= 2 THEN date[1] - 1 ELSE date[1]
        era == y \div 400
        yoe == y - era * 400
        mp  == IF date[2] > 2 THEN date[2] - 3 ELSE date[2] + 9
        doy == (153 * mp + 2) \div 5 + date[3] - 1
        doe == yoe * 365 + yoe \div 4 - yoe \div 100 + doy
    IN  era * 146097 + doe - 719468

\* the civil date <<y, m, d>> that lies z days after 1970-01-01
CivilFromDays(z) ==
    LET zz  == z + 719468
        era == zz \div 146097
        doe == zz - era * 146097
        yoe == (doe - doe \div 1460 + doe \div 36524 - doe \div 146096) \div 365
        doy == doe - (365 * yoe + yoe \div 4 - yoe \div 100)
        mp  == (5 * doy + 2) \div 153
        d   == doy - (153 * mp + 2) \div 5 + 1
        m   == IF mp < 10 THEN mp + 3 ELSE mp - 9
    IN  << (IF m <= 2 THEN yoe + era * 400 + 1 ELSE yoe + era * 400), m, d >>

\* the same day n years earlier, as Date.setFullYear computes it: a 29
\* February that the year does not have rolls over to 1 March
YearsBeforeRollingOver(date, n) ==
    IF date[3] > DaysInMonth(date[1] - n, date[2])
    THEN << date[1] - n, date[2] + 1, 1 >>
    ELSE << date[1] - n, date[2], date[3] >>

\* the same day n years earlier; 29 February falls back to 28 February
\* when that year has none
YearsBefore(date, n) ==
    << date[1] - n, date[2],
       IF date[3] > DaysInMonth(date[1] - n, date[2])
       THEN DaysInMonth(date[1] - n, date[2]) ELSE date[3] >>

\* Birthday Generator: a date between now - maxAge and now - minAge, chosen
\* by the draw r
generateBirthday(now, r) ==
    LET lo == DaysFromCivil(YearsBefore(now, maxAge))
        hi == DaysFromCivil(YearsBefore(now, minAge))
    IN  CivilFromDays(lo + (r % (hi - lo + 1)))

\* the character that marks a variable position of a phone template
Placeholder == Ord("X")

\* number of variable positions among the first i characters of a template
RECURSIVE CountX(_, _)
CountX(format, i) ==
    IF i = 0 THEN 0
    ELSE CountX(format, i - 1) + (IF format[i] = Placeholder THEN 1 ELSE 0)

\* a Phone Generator that takes every character after the dial prefix for
\* a variable position
generatePhoneNoSeparators(country, rs) ==
    LET format == countries[country].phoneFormat
        prefix == Len(countries[country].dialPrefix)
    IN  [ i \in 1..Len(format) |->
            IF i > prefix THEN 48 + (rs[((i - 1) % Len(rs)) + 1] % 10)
            ELSE format[i] ]

\* Phone Generator: the template with each X replaced by a digit, the
\* k-th X by the digit of the k-th draw
generatePhone(country, rs) ==
    LET format == countries[country].phoneFormat IN
    [ i \in 1..Len(format) |->
        IF format[i] = Placeholder
        THEN 48 + (rs[CountX(format, i)] % 10)
        ELSE format[i] ]

\* policy constant and character classes of the Password Generator
passwordLength == 12

Uppercase == [i \in 1..26 |-> 64 + i]
Lowercase == [i \in 1..26 |-> 96 + i]
Digits    == [i \in 1..10 |-> 47 + i]
Symbols   == Str(<< "!", "@", "#", "$", "%", "^", "&", "*" >>)
AllClasses == Uppercase \o Lowercase \o Digits \o Symbols

\* an exchange that forgets to write the second position
SwapOverwriting(s, i, j) == [s EXCEPT ![i] = s[j]]

\* s with the characters at positions i and j exchanged
Swap(s, i, j) == [s EXCEPT ![i] = s[j], ![j] = s[i]]

\* Fisher-Yates: position i, from the last down to the second, is exchanged
\* with a position drawn from 1..i
RECURSIVE Shuffle(_, _, _)
Shuffle(s, rs, i) ==
    IF i < 2 THEN s
    ELSE Shuffle(Swap(s, i, (rs[i - 1] % i) + 1), rs, i - 1)

\* Password Generator: one character of each class, the rest from the
\* union of the classes (Unshuffled), then shuffled.  rs = 2 *
\* passwordLength - 1 draws
Unshuffled(rs) ==
    << Pick(Uppercase, rs[1]), Pick(Lowercase, rs[2]),
       Pick(Digits, rs[3]), Pick(Symbols, rs[4]) >>
        \o [i \in 1..(passwordLength - 4) |-> Pick(AllClasses, rs[4 + i])]

generatePassword(rs) ==
    Shuffle(Unshuffled(rs),
            SubSeq(rs, passwordLength + 1, 2 * passwordLength - 1),
            passwordLength)

\* no stripping at all
KeepEveryCharacter(s) == s

\* the characters of s that are ASCII letters or digits, in order
RECURSIVE StripNonAlnum(_)
StripNonAlnum(s) ==
    IF s = << >> THEN << >>
    ELSE (IF IsAsciiAlnum(Head(s)) THEN << Head(s) >> ELSE << >>)
            \o StripNonAlnum(Tail(s))

\* decimal digits of a natural number
RECURSIVE ToDecimal(_)
ToDecimal(n) ==
    IF n < 10 THEN << 48 + n >>
    ELSE ToDecimal(n \div 10) \o << 48 + (n % 10) >>

\* Email Composer: rs = two draws (suffix, domain)
generateEmail(firstName, lastName, customDomain, rs) ==
    LET localPart == StripNonAlnum(ToLowerCase(firstName \o lastName))
                        \o ToDecimal(rs[1] % 1000)
    IN  IF customDomain = undefined \/ isRandomSentinel(customDomain)
        THEN [ ok |-> TRUE,
               email |-> localPart \o << 64 >> \o Pick(getAllDomains, rs[2]) ]
        ELSE IF ~IsValidDomain(customDomain) THEN Throw("InvalidDomainError")
        ELSE [ ok |-> TRUE, email |-> localPart \o << 64 >> \o customDomain ]

-----------------------------------------------------------------------------
(* The page: values.                                                       *)

Fields == {"firstName", "lastName", "birthday", "phone", "password", "email"}

\* the identity the page starts with: six empty strings
emptyUserInfo ==
    [ firstName |-> << >>, lastName |-> << >>, birthday |-> << >>,
      phone |-> << >>, password |-> << >>, email |-> << >> ]

\* the day the page runs on (the system clock)
PageToday == << 2024, 2, 29 >>

\* the page size of the domain list
pageSize == 50

\* the conditional with its branches exchanged
CustomDomainInverted(domain) == IF domain = random THEN domain ELSE undefined

\* const customDomain = selectedDomain === 'random' ? undefined : selectedDomain
CustomDomain(domain) == IF domain = random THEN undefined ELSE domain

\* the body of the try block: the generators in order, the email last; the
\* first one that throws ends it.  country is an index into countries;
\* reading the code of an undefined country throws as well
GenerateIdentity(country, domain, now, rnd) ==
    IF country = NoCountry THEN Throw("TypeError")
    ELSE
    LET n == generateName(countries[country].code, rnd.name) IN
    IF ~n.ok THEN n
    ELSE
      LET birthday     == generateBirthday(now, rnd.birthday)
          phone        == generatePhone(country, rnd.phone)
          password     == generatePassword(rnd.password)
          customDomain == CustomDomain(domain)
          e == generateEmail(n.firstName, n.lastName, customDomain, rnd.email)
      IN  IF ~e.ok THEN e
          ELSE [ ok |-> TRUE,
                 customDomain |-> customDomain,
                 info |-> [ firstName |-> n.firstName, lastName |-> n.lastName,
                            birthday |-> birthday, phone |-> phone,
                            password |-> password, email |-> e.email ] ]

\* what the domain setting can hold: the sentinel or a registry entry
DomainChoices == {random} \cup {getAllDomains[i] : i \in 1..Len(getAllDomains)}

\* the identities a call of the page can produce, by country, domain choice
\* and seed (GenerateIdentity tabulated)
PageIdentity ==
    [ country \in 0..Len(countries), domain \in DomainChoices,
      seed \in 0..MaxSeed |->
        GenerateIdentity(country, domain, PageToday, SeededDraws(seed)) ]

\* one generation call of the page: the table where it has the entry
Generated(country, domain, seed) ==
    IF domain \in DomainChoices /\ seed \in 0..MaxSeed
    THEN PageIdentity[country, domain, seed]
    ELSE GenerateIdentity(country, domain, PageToday, SeededDraws(seed))

\* a setUserInfo that merges a few fields into the previous object
SetUserInfoMerging(prev, info) ==
    [prev EXCEPT !.firstName = info.firstName, !.lastName = info.lastName,
                 !.email = info.email]

\* setUserInfo({ firstName, lastName, birthday, phone, password, email }):
\* the new object replaces the state
SetUserInfo(prev, info) == info

\* a catch block that clears the displayed identity
OnGenerateErrorClearing(prev) == emptyUserInfo

\* catch (error) { console.error(error) }: the state is not touched
OnGenerateError(prev) == prev

\* the call no field comes from
NoCall == [country |-> NoCountry, domain |-> undefined, seed |-> -1]

\* what the end of a generation call does to the displayed identity, and
\* the effect on [userInfo.email] that follows the render
Display(res, country, domain, seed, saved) ==
    IF res.ok
    THEN /\ userInfo' = SetUserInfo(userInfo, res.info)
         /\ origin' = SetUserInfo(origin,
                [f \in Fields |->
                    [country |-> country, domain |-> domain, seed |-> seed]])
         /\ shown' = [ country |-> country, domain |-> domain,
                       customDomain |-> res.customDomain ]
         /\ lastError' = "none"
         /\ saveRequested' = FALSE
         /\ isSaved' = IF userInfo'.email # userInfo.email /\ userInfo'.email # << >>
                       THEN userInfo'.email \in savedEmails
                       ELSE saved
    ELSE /\ userInfo' = OnGenerateError(userInfo)
         /\ isSaved' = IF userInfo'.email # userInfo.email /\ userInfo'.email # << >>
                       THEN userInfo'.email \in savedEmails
                       ELSE saved
         /\ lastError' = res.error
         /\ UNCHANGED <<origin, shown, saveRequested>>

\* a generate() whose deferred part closes over the country and domain of
\* the render before the one that requested it (a stale closure)
DoGenerateStale(country, domain) ==
    /\ isGenerating' = TRUE
    /\ copiedField' = "null"
    /\ saveStatus' = "idle"
    /\ isSaved' = FALSE
    /\ idleQueue' = Append(idleQueue, [country |-> selectedCountry,
                                       domain |-> selectedDomain])

\* a generate() that leaves the save state as it is
DoGenerateKeepingSaved(country, domain) ==
    /\ isGenerating' = TRUE
    /\ copiedField' = "null"
    /\ UNCHANGED <<saveStatus, isSaved>>
    /\ idleQueue' = Append(idleQueue, [country |-> country, domain |-> domain])

\* generate(), as far as it runs at once: the flags, and the deferred part
\* handed to requestIdleCallback with the country and domain it closes over
DoGenerate(country, domain) ==
    /\ isGenerating' = TRUE
    /\ copiedField' = "null"
    /\ saveStatus' = "idle"
    /\ isSaved' = FALSE
    /\ idleQueue' = Append(idleQueue, [country |-> country, domain |-> domain])

\* the effect on [isInitialized, userInfo.firstName, selectedCountry,
\* selectedDomain], run after a render in which one of them changed and
\* isInitialized && !userInfo.firstName holds: it generates at once
InitialGeneration(country, domain) ==
    \E seed \in 0..MaxSeed :
        Display(Generated(country, domain, seed), country, domain, seed,
                isSaved)

\* selectedCountry.code
CodeOf(country) ==
    IF country = NoCountry THEN "undefined" ELSE countries[country].code

\* effects of which the second also lists selectedDomain as a dependency
AfterRenderDomainDependent(initialized, country, domain) ==
    IF initialized /\ userInfo.firstName = << >>
       /\ << initialized, country, domain >>
            # << isInitialized, selectedCountry, selectedDomain >>
    THEN /\ InitialGeneration(country, domain)
         /\ UNCHANGED <<isGenerating, copiedField, saveStatus, idleQueue>>
    ELSE IF initialized /\ userInfo.firstName # << >>
            /\ << CodeOf(country), domain >>
                # << CodeOf(selectedCountry), selectedDomain >>
    THEN /\ Len(idleQueue) < MaxPending
         /\ DoGenerate(country, domain)
         /\ UNCHANGED <<userInfo, origin, shown, saveRequested, lastError>>
    ELSE UNCHANGED <<userInfo, origin, shown, saveRequested, lastError, isSaved,
                     isGenerating, copiedField, saveStatus, idleQueue>>

\* the effects that follow a render with a new selectedCountry, selectedDomain
\* or isInitialized: the initial generation, and generate() on a new
\* selectedCountry.code
AfterRender(initialized, country, domain) ==
    IF initialized /\ userInfo.firstName = << >>
       /\ << initialized, country, domain >>
            # << isInitialized, selectedCountry, selectedDomain >>
    THEN /\ InitialGeneration(country, domain)
         /\ UNCHANGED <<isGenerating, copiedField, saveStatus, idleQueue>>
    ELSE IF initialized /\ userInfo.firstName # << >>
            /\ CodeOf(country) # CodeOf(selectedCountry)
    THEN /\ Len(idleQueue) < MaxPending
         /\ DoGenerate(country, domain)
         /\ UNCHANGED <<userInfo, origin, shown, saveRequested, lastError>>
    ELSE UNCHANGED <<userInfo, origin, shown, saveRequested, lastError, isSaved,
                     isGenerating, copiedField, saveStatus, idleQueue>>

-----------------------------------------------------------------------------
(* The page: initial state and operations.                                 *)

\* DomainList as it mounts (and, in the model, while it is not mounted)
ListUnmounted ==
    /\ searchQuery = << >>
    /\ filteredQuery = << >>
    /\ visibleCount = pageSize
    /\ debounceTimer = << >>

PageInit ==
    /\ selectedCountry = 1
    /\ selectedDomain = random
    /\ userInfo = emptyUserInfo
    /\ ipInfo = [ip |-> "...", country |-> "US"]
    /\ isInitialized = FALSE
    /\ isGenerating = FALSE
    /\ copiedField = "null"
    /\ saveStatus = "idle"
    /\ isSaved = FALSE
    /\ showCountrySheet = FALSE
    /\ showDomainSheet = FALSE
    /\ isMounted = TRUE
    /\ lookup = "fetching"
    /\ idleQueue = << >>
    /\ savedEmails = {}
    /\ pendingSaves = << >>
    /\ saveTimer = FALSE
    /\ answer = << >>
    /\ saveRequested = FALSE
    /\ clipboardWrites = << >>
    /\ copyTimers = << >>
    /\ copyResult = "none"
    /\ inboxStatus = "idle"
    /\ inboxTimers = << >>
    /\ lastOpened = << >>
    /\ ListUnmounted
    /\ origin = [f \in Fields |-> NoCall]
    /\ shown = [country |-> NoCountry, domain |-> undefined, customDomain |-> undefined]
    /\ lastError = "none"

NoProbe == [kind |-> "none"]

Init ==
    /\ PageInit
    /\ allDomains = getAllDomains
    /\ probe = NoProbe

\* a registry long enough for the domain list to page: RegistrySize domains
\* in a fixed order, a third of them without the letter a, every other one
\* with its ending in capitals
ListedDomains ==
    [ i \in 1..RegistrySize |->
        (IF i % 3 = 0 THEN Str(<< "d" >>) ELSE Str(<< "a" >>))
            \o ToDecimal(i)
            \o (IF i % 2 = 0 THEN Str(<< ".", "I", "O" >>)
                 ELSE Str(<< ".", "i", "o" >>)) ]

\* the page started over that registry
InitList ==
    /\ PageInit
    /\ allDomains = ListedDomains
    /\ probe = NoProbe

\* click on the generate button (disabled while isGenerating)
Generate ==
    /\ isMounted /\ isInitialized /\ ~isGenerating
    /\ Len(idleQueue) < MaxPending
    /\ DoGenerate(selectedCountry, selectedDomain)
    /\ UNCHANGED <<selectedCountry, selectedDomain, userInfo, ipInfo,
                   isInitialized, showCountrySheet, showDomainSheet, isMounted,
                   lookup, answer, savedEmails, pendingSaves, saveTimer, allDomains, listVars, origin,
                   shown, saveRequested, lastError, probe, copyVars, inboxVars>>

\* Ctrl/Cmd+G: the window's keydown listener calls generate()
KeyGenerate ==
    /\ isMounted
    /\ Len(idleQueue) < MaxPending
    /\ DoGenerate(selectedCountry, selectedDomain)
    /\ UNCHANGED <<selectedCountry, selectedDomain, userInfo, ipInfo,
                   isInitialized, showCountrySheet, showDomainSheet, isMounted,
                   lookup, answer, savedEmails, pendingSaves, saveTimer, allDomains, listVars, origin,
                   shown, saveRequested, lastError, probe, copyVars, inboxVars>>

\* a callback that resets the flag at the end of the try block only
ResetOnlyOnSuccess(threw, generating) == IF threw THEN generating ELSE FALSE

\* finally { setIsGenerating(false) }: the flag after the call, whether it
\* threw or not
FinallyIsGenerating(threw, generating) == FALSE

\* the browser runs the oldest idle callback: try { ... } catch { ... }
\* finally { setIsGenerating(false) }.  After unmount the state updates
\* are dropped
RunIdleCallback ==
    /\ idleQueue # << >>
    /\ idleQueue' = Tail(idleQueue)
    /\ IF isMounted
       THEN /\ \E seed \in 0..MaxSeed :
                 Display(Generated(Head(idleQueue).country,
                                   Head(idleQueue).domain, seed),
                         Head(idleQueue).country, Head(idleQueue).domain,
                         seed, isSaved)
            /\ isGenerating' = FinallyIsGenerating(lastError' # "none",
                                                   isGenerating)
       ELSE UNCHANGED <<userInfo, origin, shown, saveRequested, lastError, isSaved, isGenerating>>
    /\ UNCHANGED <<selectedCountry, selectedDomain, ipInfo, isInitialized,
                   copiedField, saveStatus, showCountrySheet, showDomainSheet,
                   isMounted, lookup, answer, savedEmails, pendingSaves, saveTimer, allDomains, listVars, probe, copyVars, inboxVars>>

\* bodies /api/ip-info may answer with (an absent property is "")
Responses ==
    [ ip : {"203.0.113.7"}, country : {"FR", "XX", "ZZ"}, accurate : BOOLEAN ]
        \cup {[ip |-> "", country |-> "", accurate |-> FALSE]}

\* the answers that claim to have located the visitor
Accurate == {data \in Responses : data.accurate}

\* a detection that does not look at the accuracy flag
DetectedCountryIgnoringAccuracy(data, current) ==
    IF data.country # "" /\ getCountryConfig(data.country) # NoCountry
    THEN getCountryConfig(data.country)
    ELSE current

\* a detection that stores whatever the registry lookup returns
DetectedCountryUnchecked(data, current) ==
    IF data.country # "" /\ data.accurate
    THEN getCountryConfig(data.country)
    ELSE current

\* if (data.country && data.accurate) { const detectedCountry =
\* getCountryConfig(data.country); if (detectedCountry) setSelectedCountry(..) }:
\* the country selected after the response, current being selected before
DetectedCountry(data, current) ==
    IF data.country # "" /\ data.accurate
       /\ getCountryConfig(data.country) # NoCountry
    THEN getCountryConfig(data.country)
    ELSE current

\* initializeApp: the fetch wins the race and its body parses
LookupResponds(data) ==
    /\ lookup = "fetching"
    /\ lookup' = "done"
    /\ answer' = << data >>
    /\ IF ~isMounted
        THEN UNCHANGED <<ipInfo, selectedCountry, isInitialized, userInfo,
                         origin, shown, saveRequested, lastError, isSaved, isGenerating,
                         copiedField, saveStatus, idleQueue>>
        ELSE
          LET country == DetectedCountry(data, selectedCountry)
          IN  /\ ipInfo' = [ ip |-> IF data.ip # "" THEN data.ip ELSE "unknown",
                             country |-> IF data.country # "" THEN data.country
                                         ELSE "US" ]
              /\ selectedCountry' = country
              /\ isInitialized' = TRUE
              /\ AfterRender(TRUE, country, selectedDomain)
    /\ UNCHANGED <<selectedDomain, showCountrySheet, showDomainSheet, isMounted,
                   savedEmails, pendingSaves, saveTimer, allDomains, listVars, probe, copyVars, inboxVars>>

\* an initializeApp whose error path ends in the catch block
LookupCatchWithoutFinally ==
    /\ ipInfo' = IF isMounted THEN [ip |-> "failed", country |-> "US"]
                 ELSE ipInfo
    /\ UNCHANGED <<isInitialized, userInfo, origin, shown, saveRequested, lastError, isSaved,
                   isGenerating, copiedField, saveStatus, idleQueue>>

\* what the catch and finally blocks of initializeApp do
LookupCatch ==
    IF ~isMounted
    THEN UNCHANGED <<ipInfo, isInitialized, userInfo, origin, shown, saveRequested,
                     lastError, isSaved, isGenerating, copiedField, saveStatus,
                     idleQueue>>
    ELSE /\ ipInfo' = [ip |-> "failed", country |-> "US"]
         /\ isInitialized' = TRUE
         /\ AfterRender(TRUE, selectedCountry, selectedDomain)

\* initializeApp: the fetch rejects, or its body does not parse
LookupFails ==
    /\ lookup = "fetching"
    /\ lookup' = "done"
    /\ LookupCatch
    /\ UNCHANGED answer
    /\ UNCHANGED <<selectedCountry, selectedDomain, showCountrySheet,
                   showDomainSheet, isMounted, savedEmails, pendingSaves, saveTimer, allDomains,
                   listVars, probe, copyVars, inboxVars>>

\* initializeApp: the 3000 ms timer rejects first; the fetch is still out
LookupTimeout ==
    /\ lookup = "fetching"
    /\ lookup' = "timedout"
    /\ LookupCatch
    /\ UNCHANGED answer
    /\ UNCHANGED <<selectedCountry, selectedDomain, showCountrySheet,
                   showDomainSheet, isMounted, savedEmails, pendingSaves, saveTimer, allDomains,
                   listVars, probe, copyVars, inboxVars>>

\* the fetch settles after the race is over: nobody listens
LateResponse ==
    /\ lookup = "timedout"
    /\ lookup' = "done"
    /\ UNCHANGED <<pageVars_but_lookup, allDomains, listVars, probe>>

\* the page component unmounts: the cleanups run (isMounted = false, the
\* list's debounce timer is cleared)
Unmount ==
    /\ isMounted
    /\ isMounted' = FALSE
    /\ searchQuery' = << >>
    /\ filteredQuery' = << >>
    /\ visibleCount' = pageSize
    /\ debounceTimer' = << >>
    /\ UNCHANGED <<selectedCountry, selectedDomain, userInfo, ipInfo,
                   isInitialized, isGenerating, copiedField, saveStatus,
                   isSaved, showCountrySheet, showDomainSheet, lookup, answer,
                   idleQueue, savedEmails, pendingSaves, saveTimer, allDomains, origin, shown, saveRequested,
                   lastError, probe, copyVars, inboxVars>>

\* the settings row that opens the country sheet (rendered once initialized)
HandleOpenCountrySheet ==
    /\ isMounted /\ isInitialized
    /\ ~showCountrySheet /\ ~showDomainSheet
    /\ showCountrySheet' = TRUE
    /\ UNCHANGED <<selectedCountry, selectedDomain, userInfo, ipInfo,
                   isInitialized, isGenerating, copiedField, saveStatus,
                   isSaved, showDomainSheet, isMounted, lookup, answer, idleQueue,
                   savedEmails, pendingSaves, saveTimer, allDomains, listVars, origin, shown, saveRequested,
                   lastError, probe, copyVars, inboxVars>>

\* the sheet's backdrop or close button
HandleCloseCountrySheet ==
    /\ isMounted /\ showCountrySheet
    /\ showCountrySheet' = FALSE
    /\ UNCHANGED <<selectedCountry, selectedDomain, userInfo, ipInfo,
                   isInitialized, isGenerating, copiedField, saveStatus,
                   isSaved, showDomainSheet, isMounted, lookup, answer, idleQueue,
                   savedEmails, pendingSaves, saveTimer, allDomains, listVars, origin, shown, saveRequested,
                   lastError, probe, copyVars, inboxVars>>

\* CountryList offers every entry of countries; the handler stores the
\* entry and closes the sheet, and the effects of the next render follow
HandleCountrySelect(country) ==
    /\ isMounted /\ showCountrySheet
    /\ selectedCountry' = country
    /\ showCountrySheet' = FALSE
    /\ AfterRender(isInitialized, country, selectedDomain)
    /\ UNCHANGED <<selectedDomain, ipInfo, isInitialized, showDomainSheet,
                   isMounted, lookup, answer, savedEmails, pendingSaves, saveTimer, allDomains, listVars, probe, copyVars, inboxVars>>

\* a debounce effect that leaves the timer of the previous text running
SetDebounceTimerKeeping(timers, text) == Append(timers, text)

\* the debounce effect on [searchQuery]: clearTimeout of the pending timer,
\* then setTimeout for the text just rendered
SetDebounceTimer(timers, text) == << text >>

\* the settings row that opens the domain sheet; DomainList mounts and its
\* debounce effect starts the first timer
HandleOpenDomainSheet ==
    /\ isMounted /\ isInitialized
    /\ ~showCountrySheet /\ ~showDomainSheet
    /\ showDomainSheet' = TRUE
    /\ debounceTimer' = SetDebounceTimer(debounceTimer, searchQuery)
    /\ UNCHANGED <<selectedCountry, selectedDomain, userInfo, ipInfo,
                   isInitialized, isGenerating, copiedField, saveStatus,
                   isSaved, showCountrySheet, isMounted, lookup, answer, idleQueue,
                   savedEmails, pendingSaves, saveTimer, allDomains, searchQuery, filteredQuery,
                   visibleCount, origin, shown, saveRequested, lastError, probe, copyVars, inboxVars>>

\* DomainList unmounts with its sheet: its state is gone, its timer cleared
ListUnmounts ==
    /\ searchQuery' = << >>
    /\ filteredQuery' = << >>
    /\ visibleCount' = pageSize
    /\ debounceTimer' = << >>

\* the sheet's backdrop or its done button
HandleCloseDomainSheet ==
    /\ isMounted /\ showDomainSheet
    /\ showDomainSheet' = FALSE
    /\ ListUnmounts
    /\ UNCHANGED <<selectedCountry, selectedDomain, userInfo, ipInfo,
                   isInitialized, isGenerating, copiedField, saveStatus,
                   isSaved, showCountrySheet, isMounted, lookup, answer, idleQueue,
                   savedEmails, pendingSaves, saveTimer, allDomains, origin, shown, saveRequested, lastError, probe, copyVars, inboxVars>>

\* Escape closes the country sheet, else the domain sheet
EscapeKey ==
    /\ isMounted
    /\ showCountrySheet \/ showDomainSheet
    /\ IF showCountrySheet
       THEN /\ showCountrySheet' = FALSE
            /\ UNCHANGED <<showDomainSheet, listVars>>
       ELSE /\ showDomainSheet' = FALSE
            /\ ListUnmounts
            /\ UNCHANGED showCountrySheet
    /\ UNCHANGED <<selectedCountry, selectedDomain, userInfo, ipInfo,
                   isInitialized, isGenerating, copiedField, saveStatus,
                   isSaved, isMounted, lookup, answer, idleQueue, savedEmails, pendingSaves, saveTimer,
                   allDomains, origin, shown, saveRequested, lastError, probe, copyVars, inboxVars>>

\* identityData.addIdentity: the store is keyed by email
addIdentity(store, email) == store \cup {email}

\* a guard that lets a request through while a save is in progress
SaveRejectedUnlessSaving(status, saved, email) ==
    saved \/ email = << >>

\* if (saveStatus === 'saving' || isSaved || !userInfo.email) return;
SaveRejected(status, saved, email) ==
    status = "saving" \/ saved \/ email = << >>

\* the save button (disabled when isSaved or without an email) or
\* Ctrl/Cmd+S: handleSaveIdentity returns at once while saving, when saved
\* or without an email; else it starts the 300 ms timer, whose callback
\* closes over the identity displayed now and over selectedCountry.  The
\* timer also remembers, as history, the country the identity was generated
\* from and whether a save of it had been accepted before
HandleSaveIdentity ==
    /\ isMounted
    /\ ~SaveRejected(saveStatus, isSaved, userInfo.email)
    /\ Len(pendingSaves) < MaxSaves
    /\ saveStatus' = "saving"
    /\ pendingSaves' = Append(pendingSaves,
                              [ email |-> userInfo.email,
                                country |-> selectedCountry,
                                generatedFrom |-> shown.country,
                                repeated |-> saveRequested ])
    /\ saveRequested' = TRUE
    /\ UNCHANGED <<selectedCountry, selectedDomain, userInfo, ipInfo,
                   isInitialized, isGenerating, copiedField, isSaved,
                   showCountrySheet, showDomainSheet, isMounted, lookup,
                   answer, idleQueue, savedEmails, saveTimer, allDomains,
                   listVars, origin, shown, lastError, probe, copyVars,
                   inboxVars>>

\* the oldest 300 ms timer fires: addIdentity with the identity it closed
\* over, setSaveStatus('saved'), setIsSaved(true), and the 2000 ms timer
\* is set anew (the setters do nothing after unmount)
SaveDelayElapses ==
    /\ pendingSaves # << >>
    /\ pendingSaves' = Tail(pendingSaves)
    /\ savedEmails' = addIdentity(savedEmails, Head(pendingSaves).email)
    /\ saveTimer' = TRUE
    /\ IF isMounted
       THEN saveStatus' = "saved" /\ isSaved' = TRUE
       ELSE UNCHANGED <<saveStatus, isSaved>>
    /\ UNCHANGED <<selectedCountry, selectedDomain, userInfo, ipInfo,
                   isInitialized, isGenerating, copiedField,
                   showCountrySheet, showDomainSheet, isMounted, lookup,
                   answer, idleQueue, allDomains, listVars, origin, shown,
                   saveRequested, lastError, probe, copyVars, inboxVars>>

\* the 2000 ms timer fires: setSaveStatus('idle')
SaveFeedbackEnds ==
    /\ saveTimer
    /\ saveTimer' = FALSE
    /\ saveStatus' = IF isMounted THEN "idle" ELSE saveStatus
    /\ UNCHANGED <<selectedCountry, selectedDomain, userInfo, ipInfo,
                   isInitialized, isGenerating, copiedField, isSaved,
                   showCountrySheet, showDomainSheet, isMounted, lookup,
                   answer, idleQueue, savedEmails, pendingSaves, allDomains,
                   listVars, origin, shown, saveRequested, lastError, probe, copyVars, inboxVars>>

\* the labels copyToClipboard is called with: the row of the password and
\* the email card (the page's labels are Chinese words; the other rows
\* behave like the password's)
CopyLabels == {"email", "password"}

\* Remove(s, i): the sequence s without its i-th element
Remove(s, i) == SubSeq(s, 1, i - 1) \o SubSeq(s, i + 1, Len(s))

\* a copyToClipboard that leaves the timer of the previous copy running
KeepTimeout(timers) == timers

\* if (copyTimerRef.current) clearTimeout(copyTimerRef.current): the ref
\* holds the timer set last, which is the last one pending if any is
ClearTimeout(timers) ==
    IF timers = << >> THEN timers ELSE SubSeq(timers, 1, Len(timers) - 1)

\* a click on a row or on the email card (rendered once initialized):
\* copyToClipboard starts the clipboard write and awaits it
CopyToClipboard(label) ==
    /\ isMounted /\ isInitialized
    /\ Len(clipboardWrites) < MaxWrites
    /\ clipboardWrites' = Append(clipboardWrites, label)
    /\ UNCHANGED <<selectedCountry, selectedDomain, userInfo, ipInfo,
                   isInitialized, isGenerating, copiedField, saveStatus,
                   isSaved, showCountrySheet, showDomainSheet, isMounted,
                   lookup, answer, idleQueue, savedEmails, pendingSaves,
                   saveTimer, allDomains, listVars, origin, shown,
                   saveRequested, lastError, probe, copyTimers, copyResult,
                   inboxVars>>

\* a clipboard write resolves: the rest of the try block clears the timer
\* of the previous copy, sets the feedback and starts the 1500 ms timer
WriteResolves(i) ==
    /\ i \in 1..Len(clipboardWrites)
    /\ clipboardWrites' = Remove(clipboardWrites, i)
    /\ copyResult' = "written"
    /\ copyTimers' = Append(ClearTimeout(copyTimers), clipboardWrites[i])
    /\ copiedField' = IF isMounted THEN clipboardWrites[i] ELSE copiedField
    /\ UNCHANGED <<selectedCountry, selectedDomain, userInfo, ipInfo,
                   isInitialized, isGenerating, saveStatus,
                   isSaved, showCountrySheet, showDomainSheet, isMounted,
                   lookup, answer, idleQueue, savedEmails, pendingSaves,
                   saveTimer, allDomains, listVars, origin, shown,
                   saveRequested, lastError, probe, inboxVars>>

\* a clipboard write rejects: catch { haptic(50) }
WriteRejects(i) ==
    /\ i \in 1..Len(clipboardWrites)
    /\ clipboardWrites' = Remove(clipboardWrites, i)
    /\ copyResult' = "rejected"
    /\ UNCHANGED <<selectedCountry, selectedDomain, userInfo, ipInfo,
                   isInitialized, isGenerating, copiedField, saveStatus,
                   isSaved, showCountrySheet, showDomainSheet, isMounted,
                   lookup, answer, idleQueue, savedEmails, pendingSaves,
                   saveTimer, allDomains, listVars, origin, shown,
                   saveRequested, lastError, probe, copyTimers, inboxVars>>

\* the oldest 1500 ms timer fires: setCopiedField(null)
CopyTimerFires ==
    /\ copyTimers # << >>
    /\ copyTimers' = Tail(copyTimers)
    /\ copiedField' = IF isMounted THEN "null" ELSE copiedField
    /\ UNCHANGED <<selectedCountry, selectedDomain, userInfo, ipInfo,
                   isInitialized, isGenerating, saveStatus,
                   isSaved, showCountrySheet, showDomainSheet, isMounted,
                   lookup, answer, idleQueue, savedEmails, pendingSaves,
                   saveTimer, allDomains, listVars, origin, shown,
                   saveRequested, lastError, probe, clipboardWrites,
                   copyResult, inboxVars>>

\* if (inboxStatus === 'opening') return;
InboxClickRejected(status) == status = "opening"

\* a click on the inbox button (rendered once initialized): unless a window
\* is being opened, the handler shows 'opening' and starts the 600 ms
\* timer, whose callback closes over the local part of the email displayed
\* now
HandleInboxClick ==
    /\ isMounted /\ isInitialized
    /\ ~InboxClickRejected(inboxStatus)
    /\ inboxStatus' = "opening"
    /\ inboxTimers' = Append(inboxTimers, LocalPart(userInfo.email))
    /\ UNCHANGED <<selectedCountry, selectedDomain, userInfo, ipInfo,
                   isInitialized, isGenerating, copiedField, saveStatus,
                   isSaved, showCountrySheet, showDomainSheet, isMounted,
                   lookup, answer, idleQueue, savedEmails, pendingSaves,
                   saveTimer, allDomains, listVars, origin, shown,
                   saveRequested, lastError, probe, copyVars, lastOpened>>

\* the oldest 600 ms timer fires: window.open with the login it closed
\* over, then setInboxStatus('idle')
InboxTimerFires ==
    /\ inboxTimers # << >>
    /\ inboxTimers' = Tail(inboxTimers)
    /\ lastOpened' = << Head(inboxTimers) >>
    /\ inboxStatus' = IF isMounted THEN "idle" ELSE inboxStatus
    /\ UNCHANGED <<selectedCountry, selectedDomain, userInfo, ipInfo,
                   isInitialized, isGenerating, copiedField, saveStatus,
                   isSaved, showCountrySheet, showDomainSheet, isMounted,
                   lookup, answer, idleQueue, savedEmails, pendingSaves,
                   saveTimer, allDomains, listVars, origin, shown,
                   saveRequested, lastError, probe, copyVars>>

\* the domains that contain the applied query, case-insensitively
filteredDomains ==
    IF filteredQuery = << >> THEN allDomains
    ELSE LET query == ToLowerCase(filteredQuery)
             Matches(d) == Includes(ToLowerCase(d), query)
         IN  SelectSeq(allDomains, Matches)

\* filteredDomains.slice(0, visibleCount)
visibleDomains ==
    SubSeq(filteredDomains, 1,
           IF visibleCount < Len(filteredDomains) THEN visibleCount
           ELSE Len(filteredDomains))

\* a list that also offers the applied query itself as an entry
OfferedDomainsWithQuery ==
    {random} \cup {visibleDomains[i] : i \in 1..Len(visibleDomains)}
        \cup (IF filteredQuery = << >> THEN {} ELSE {filteredQuery})

\* the entries DomainList renders: "random" when no query is applied, then
\* the visible domains
OfferedDomains ==
    LET visible == visibleDomains
    IN  (IF filteredQuery = << >> THEN {random} ELSE {})
            \cup {visible[i] : i \in 1..Len(visible)}

\* a click on an entry of DomainList: the handler stores the domain and
\* closes the sheet, and the effects of the next render follow
HandleDomainSelect(domain) ==
    /\ isMounted /\ showDomainSheet
    /\ domain \in OfferedDomains
    /\ selectedDomain' = domain
    /\ showDomainSheet' = FALSE
    /\ ListUnmounts
    /\ AfterRender(isInitialized, selectedCountry, domain)
    /\ UNCHANGED <<selectedCountry, ipInfo, isInitialized, showCountrySheet,
                   isMounted, lookup, answer, savedEmails, pendingSaves, saveTimer, allDomains, probe, copyVars, inboxVars>>

\* what the user may type into the search box
Queries ==
    { << >>, Str(<< "a" >>), Str(<< "I", "O" >>), Str(<< "z" >>) }

\* the search box changes (typing, or the clear button): the debounce
\* effect replaces the pending timer by one for the new text
HandleSearchChange(text) ==
    /\ isMounted /\ showDomainSheet
    /\ text # searchQuery
    /\ searchQuery' = text
    /\ debounceTimer' = SetDebounceTimer(debounceTimer, text)
    /\ UNCHANGED <<pageVars, allDomains, filteredQuery, visibleCount, probe>>

\* the debounce timer fires, 300 ms after the last change
DebounceFires ==
    /\ debounceTimer # << >>
    /\ filteredQuery' = Head(debounceTimer)
    /\ visibleCount' = pageSize
    /\ debounceTimer' = Tail(debounceTimer)
    /\ UNCHANGED <<pageVars, allDomains, searchQuery, probe>>

\* a load-more step that does not stop at the end of the list
LoadMoreCountUncapped(prev, total) == prev + pageSize

\* prev => Math.min(prev + 50, filteredDomains.length)
LoadMoreCount(prev, total) ==
    IF prev + pageSize < total THEN prev + pageSize ELSE total

\* the sentinel below the visible domains (rendered while some are hidden)
\* scrolls into view: the IntersectionObserver's callback shows more
LoadMore ==
    /\ isMounted /\ showDomainSheet
    /\ visibleCount < Len(filteredDomains)
    /\ visibleCount' = LoadMoreCount(visibleCount, Len(filteredDomains))
    /\ UNCHANGED <<pageVars, allDomains, searchQuery, filteredQuery,
                   debounceTimer, probe>>

\* the page in use, started by a lookup that located the visitor (a failed
\* or unlocated lookup is part of SpecStartup and SpecDomain)
Next ==
    \/ Generate
    \/ KeyGenerate
    \/ RunIdleCallback
    \/ \E data \in Accurate : LookupResponds(data)
    \/ HandleOpenCountrySheet
    \/ HandleCloseCountrySheet
    \/ \E country \in 1..Len(countries) : HandleCountrySelect(country)
    \/ HandleOpenDomainSheet
    \/ HandleCloseDomainSheet
    \/ EscapeKey
    \/ \E domain \in OfferedDomains : HandleDomainSelect(domain)

Spec == Init /\ [][Next]_vars

-----------------------------------------------------------------------------
(* The list of domains with its search box, on a page that only starts     *)
(* up, opens the domain sheet and unmounts.                                *)

NextDomain ==
    \/ \E data \in Responses : LookupResponds(data)
    \/ LookupFails
    \/ Unmount
    \/ HandleOpenDomainSheet
    \/ HandleCloseDomainSheet
    \/ \E domain \in OfferedDomains : HandleDomainSelect(domain)
    \/ \E text \in Queries : HandleSearchChange(text)
    \/ DebounceFires

SpecDomain == Init /\ [][NextDomain]_vars

-----------------------------------------------------------------------------
(* The list of domains over a registry of several pages: search, debounce  *)
(* and load-more on a page that only starts up and opens the domain sheet. *)

NextList ==
    \/ \E data \in Responses : LookupResponds(data)
    \/ LookupFails
    \/ HandleOpenDomainSheet
    \/ HandleCloseDomainSheet
    \/ \E text \in Queries : HandleSearchChange(text)
    \/ DebounceFires
    \/ LoadMore

SpecList == InitList /\ [][NextList]_vars

\* the same, with a debounce timer that fires and a user who keeps
\* scrolling to the end of the list
SpecListFair ==
    /\ SpecList
    /\ WF_vars(DebounceFires)
    /\ WF_vars(LoadMore)

-----------------------------------------------------------------------------
(* The start of the page: the lookup against its timeout, with key presses *)
(* and an unmount in between.                                              *)

NextStartup ==
    \/ \E data \in Responses : LookupResponds(data)
    \/ LookupFails
    \/ LookupTimeout
    \/ LateResponse
    \/ Unmount
    \/ Generate
    \/ KeyGenerate
    \/ RunIdleCallback

SpecStartup == Init /\ [][NextStartup]_vars

\* the race of initializeApp settles: the fetch answers or rejects, or the
\* 3000 ms timer rejects
LookupSettles ==
    \/ \E data \in Responses : LookupResponds(data)
    \/ LookupFails
    \/ LookupTimeout

\* the same, with what the browser guarantees: a timer that was set fires,
\* and a requested idle callback is run
SpecStartupFair ==
    /\ SpecStartup
    /\ WF_vars(LookupSettles)
    /\ WF_vars(RunIdleCallback)

-----------------------------------------------------------------------------
(* Saving: the page after a lookup that failed, with generations and saves *)
(* in any order.                                                           *)

NextSave ==
    \/ LookupFails
    \/ Generate
    \/ KeyGenerate
    \/ RunIdleCallback
    \/ HandleSaveIdentity
    \/ SaveDelayElapses
    \/ SaveFeedbackEnds

SpecSave == Init /\ [][NextSave]_vars

\* the same, with what the browser guarantees: a timer that was set fires
SpecSaveFair ==
    /\ SpecSave
    /\ WF_vars(SaveDelayElapses)
    /\ WF_vars(SaveFeedbackEnds)

-----------------------------------------------------------------------------
(* Saving while the country changes: the page after a lookup that failed,  *)
(* with country selections and saves in any order.                         *)

\* a save request, as long as fewer than MaxStored saves were requested
SaveFewIdentities ==
    /\ Len(pendingSaves) + Cardinality(savedEmails) < MaxStored
    /\ HandleSaveIdentity

NextSaveCountry ==
    \/ LookupFails
    \/ HandleOpenCountrySheet
    \/ \E country \in 1..Len(countries) : HandleCountrySelect(country)
    \/ RunIdleCallback
    \/ SaveFewIdentities
    \/ SaveDelayElapses

SpecSaveCountry == Init /\ [][NextSaveCountry]_vars

-----------------------------------------------------------------------------
(* Copying: the page after a lookup that failed, with copies, clipboard    *)
(* writes that resolve or reject in any order, and generations.            *)

NextCopy ==
    \/ LookupFails
    \/ Generate
    \/ RunIdleCallback
    \/ \E label \in CopyLabels : CopyToClipboard(label)
    \/ \E i \in 1..Len(clipboardWrites) : WriteResolves(i)
    \/ \E i \in 1..Len(clipboardWrites) : WriteRejects(i)
    \/ CopyTimerFires

SpecCopy == Init /\ [][NextCopy]_vars

\* the same, with what the browser guarantees: a timer that was set fires
SpecCopyFair == SpecCopy /\ WF_vars(CopyTimerFires)

-----------------------------------------------------------------------------
(* The inbox: the page after the lookup, with inbox clicks and generations *)
(* in any order, and an unmount.                                           *)

NextInbox ==
    \/ \E data \in Responses : LookupResponds(data)
    \/ LookupFails
    \/ Unmount
    \/ Generate
    \/ KeyGenerate
    \/ RunIdleCallback
    \/ HandleInboxClick
    \/ InboxTimerFires

SpecInbox == Init /\ [][NextInbox]_vars

-----------------------------------------------------------------------------
(* The generators called directly, on inputs the page cannot be steered    *)
(* to: many seeds, several days, every draw of the Birthday Generator.     *)

\* days the generators are run on: 29 February, the days around it in a
\* leap year and in a common year, and the turn of the year
ProbeDays ==
    { << 2024, 2, 29 >>, << 2024, 2, 28 >>, << 2024, 3, 1 >>,
      << 2023, 2, 28 >>, << 2023, 12, 31 >>, << 2024, 1, 1 >> }

\* one call of the try block
ProbeIdentity ==
    /\ probe = NoProbe
    /\ \E country \in 1..Len(countries), domain \in DomainChoices,
          now \in ProbeDays, seed \in 0..MaxProbeSeed :
          probe' = [ kind |-> "identity", country |-> country,
                     domain |-> domain, now |-> now, seed |-> seed,
                     result |-> GenerateIdentity(country, domain, now,
                                                 SeededDraws(seed)) ]
    /\ UNCHANGED <<pageVars, allDomains, listVars>>

\* one call of the Birthday Generator, for every draw that gives another date
ProbeBirthday ==
    /\ probe = NoProbe
    /\ \E now \in ProbeDays :
        \E r \in 0..(DaysFromCivil(YearsBefore(now, minAge))
                        - DaysFromCivil(YearsBefore(now, maxAge))) :
          probe' = [ kind |-> "birthday", now |-> now, draw |-> r,
                     birthday |-> generateBirthday(now, r) ]
    /\ UNCHANGED <<pageVars, allDomains, listVars>>

NextEngine == ProbeIdentity \/ ProbeBirthday

SpecEngine == Init /\ [][NextEngine]_vars

-----------------------------------------------------------------------------
(* Properties.                                                             *)

Range(s) == {s[i] : i \in 1..Len(s)}

\* a phone that follows a country's template: same length, the dial
\* prefix in front, a digit at every X, every other character in place
PhoneMatches(phone, country) ==
    LET format == countries[country].phoneFormat
        prefix == countries[country].dialPrefix
    IN  /\ Len(phone) = Len(format)
        /\ SubSeq(phone, 1, Len(prefix)) = prefix
        /\ \A i \in 1..Len(format) :
            IF format[i] = Placeholder THEN IsDigit(phone[i])
            ELSE phone[i] = format[i]

\* a is a rearrangement of b
IsPermutation(a, b) ==
    /\ Len(a) = Len(b)
    /\ \A c \in Range(a) \cup Range(b) :
        Cardinality({i \in 1..Len(a) : a[i] = c})
            = Cardinality({i \in 1..Len(b) : b[i] = c})

ValidDate(d) ==
    /\ d[2] \in 1..12
    /\ d[3] \in 1..DaysInMonth(d[1], d[2])

\* full years between a birthday and the day now
Age(birthday, now) ==
    now[1] - birthday[1]
        - (IF now[2] < birthday[2]
              \/ (now[2] = birthday[2] /\ now[3] < birthday[3])
           THEN 1 ELSE 0)

\* a generation call with these inputs fails whatever it draws
CallFails(country, domain) ==
    \A seed \in 0..MaxSeed : ~Generated(country, domain, seed).ok

\* the step runs the oldest idle callback of the mounted page
IdleCallbackRuns ==
    /\ isMounted
    /\ idleQueue # << >>
    /\ idleQueue' = Tail(idleQueue)

\* the step requests a generation (generate() is called)
GenerationRequested ==
    /\ Len(idleQueue') = Len(idleQueue) + 1
    /\ SubSeq(idleQueue', 1, Len(idleQueue)) = idleQueue

\* C1: under every interleaving of generation requests, the six fields of
\* a non-empty displayed identity all come from one and the same
\* generation call, and the record is exactly what that call returned;
\* fields of two calls are never mixed.
C1_OneCallPerRecord ==
    userInfo # emptyUserInfo =>
        /\ \A f \in Fields : origin[f] = origin["email"]
        /\ origin["email"] # NoCall
        /\ LET call == origin["email"]
               res  == Generated(call.country, call.domain, call.seed)
           IN  res.ok /\ userInfo = res.info

\* an identity of a call for France is displayed while the selection is
\* back on the first country and another request is still pending
C1_Witness ==
    /\ userInfo # emptyUserInfo
    /\ origin["email"].country = 2
    /\ origin["phone"].country = 2
    /\ selectedCountry = 1
    /\ idleQueue # << >>

\* C2: a generation call in which a generator fails (empty name pool,
\* invalid explicit domain) produces no record: the displayed identity is
\* after the call exactly what it was before, in all six fields, also
\* when the generators before the failing one had succeeded.
C2_FailureKeepsIdentity ==
    [][ /\ (IdleCallbackRuns
              /\ CallFails(Head(idleQueue).country, Head(idleQueue).domain))
            => (userInfo' = userInfo /\ lastError' # "none")
        /\ lastError' # "none" => userInfo' = userInfo ]_vars

\* the email composer has failed, after the name, birthday, phone and
\* password generators of the same call had succeeded, with an identity
\* on display
C2_Witness ==
    /\ lastError = "InvalidDomainError"
    /\ userInfo # emptyUserInfo
    /\ userInfo.firstName # << >>

\* C3: a generation request carries the country selected when it is
\* issued, the call that serves it uses that country, and every record a
\* call displays has its names from the first-name and last-name pools of
\* that country and a phone that follows the template of the same
\* country.
C3_NamesAndPhoneOfRequestCountry ==
    [][ /\ GenerationRequested
            => idleQueue'[Len(idleQueue')].country = selectedCountry'
        /\ (IdleCallbackRuns /\ lastError' = "none")
            => shown'.country = Head(idleQueue).country
        /\ << userInfo, shown >>' # << userInfo, shown >>
            => /\ shown'.country \in 1..Len(countries)
               /\ userInfo'.firstName
                    \in Range(countries[shown'.country].firstNamePool)
               /\ userInfo'.lastName
                    \in Range(countries[shown'.country].lastNamePool)
               /\ PhoneMatches(userInfo'.phone, shown'.country) ]_vars

\* a record requested while France was selected is on display, with
\* French names and a French phone, after the selection has moved on
C3_Witness ==
    /\ shown.country = 2
    /\ selectedCountry = 1
    /\ userInfo.firstName \in Range(FR.firstNamePool)
    /\ userInfo.lastName \in Range(FR.lastNamePool)
    /\ PhoneMatches(userInfo.phone, 2)

\* C4: the domain handed to the email composer is absent exactly when the
\* selected domain is the sentinel, and the selected domain itself
\* otherwise; so the email's domain is a registry entry for the sentinel
\* and the chosen domain for an explicit choice, and never the word
\* random.
C4_DomainHandedToComposer ==
    userInfo # emptyUserInfo =>
        /\ shown.customDomain = undefined <=> shown.domain = random
        /\ shown.domain # random =>
            /\ shown.customDomain = shown.domain
            /\ userInfo.email
                = LocalPart(userInfo.email) \o << 64 >> \o shown.domain
        /\ shown.domain = random =>
            DomainPart(userInfo.email) \in Range(getAllDomains)
        /\ DomainPart(userInfo.email) # random

\* an explicit domain was chosen and the displayed email ends with it
C4_Witness ==
    /\ userInfo # emptyUserInfo
    /\ shown.domain = getAllDomains[1]
    /\ shown.customDomain = getAllDomains[1]
    /\ DomainPart(userInfo.email) = getAllDomains[1]

\* C5: a generated phone has the length, the dial prefix and the
\* separators of the selected country's template, a digit at every
\* variable position and the template's character everywhere else.
C5_PhoneFollowsTemplate ==
    (probe.kind = "identity" /\ probe.result.ok) =>
        PhoneMatches(probe.result.info.phone, probe.country)

\* a French phone with digits other than zero
C5_Witness ==
    /\ probe.kind = "identity"
    /\ probe.country = 2
    /\ probe.result.ok
    /\ \E i \in 1..Len(FR.phoneFormat) :
        /\ FR.phoneFormat[i] = Placeholder
        /\ probe.result.info.phone[i] # 48

\* C6: a generated password has the length of the policy and holds an
\* uppercase letter, a lowercase letter, a digit and a symbol; the
\* shuffle only rearranges the characters chosen before it.
C6_PasswordPolicy ==
    (probe.kind = "identity" /\ probe.result.ok) =>
        LET password == probe.result.info.password IN
        /\ Len(password) = passwordLength
        /\ \E i \in 1..Len(password) : IsUpper(password[i])
        /\ \E i \in 1..Len(password) : IsLower(password[i])
        /\ \E i \in 1..Len(password) : IsDigit(password[i])
        /\ \E i \in 1..Len(password) : password[i] \in Range(Symbols)
        /\ IsPermutation(password,
                         Unshuffled(SeededDraws(probe.seed).password))

\* a password whose shuffle has moved the required characters: it does
\* not start with the uppercase letter, and differs from the unshuffled
\* text
C6_Witness ==
    /\ probe.kind = "identity"
    /\ probe.result.ok
    /\ ~IsUpper(probe.result.info.password[1])
    /\ probe.result.info.password
        # Unshuffled(SeededDraws(probe.seed).password)

\* C7: a generated birthday is a date of the calendar, and the age it
\* gives on the day of generation is within minAge..maxAge, on every day
\* of generation (29 February too) and for the earliest and the latest
\* birthday the generator can return.
C7_BirthdayInRange ==
    /\ probe.kind = "birthday" =>
        /\ ValidDate(probe.birthday)
        /\ Age(probe.birthday, probe.now) \in minAge..maxAge
    /\ (probe.kind = "identity" /\ probe.result.ok) =>
        /\ ValidDate(probe.result.info.birthday)
        /\ Age(probe.result.info.birthday, probe.now) \in minAge..maxAge

\* generated on 29 February 2024, the latest birthday there is: 28
\* February 2006, minAge years old on that day
C7_Witness ==
    /\ probe.kind = "birthday"
    /\ probe.now = << 2024, 2, 29 >>
    /\ probe.birthday = << 2006, 2, 28 >>
    /\ Age(probe.birthday, probe.now) = minAge

\* C8: the local part of a generated email holds ASCII letters and digits
\* only, whatever the names of the country's pools are made of.
C8_LocalPartAsciiAlnum ==
    (probe.kind = "identity" /\ probe.result.ok) =>
        /\ LocalPart(probe.result.info.email) # << >>
        /\ \A c \in Range(LocalPart(probe.result.info.email)) : IsAsciiAlnum(c)

\* an email composed from names that hold letters outside ASCII
C8_Witness ==
    /\ probe.kind = "identity"
    /\ probe.result.ok
    /\ \E c \in Range(probe.result.info.firstName) : c > 127
    /\ \E c \in Range(probe.result.info.lastName) : c > 127
    /\ Len(LocalPart(probe.result.info.email))
        < Len(probe.result.info.firstName) + Len(probe.result.info.lastName)
            + 1

\* C9: the selected domain is always the sentinel or an entry of the list
\* getAllDomains() returned, and so is every entry the domain list offers
\* for selection, with a search filter applied or without.
C9_SelectedDomainInRegistry ==
    /\ selectedDomain \in {random} \cup Range(allDomains)
    /\ allDomains = getAllDomains
    /\ showDomainSheet => OfferedDomains \subseteq {random} \cup Range(allDomains)

\* a registry entry is selected, and the list is open again with a filter
\* applied that leaves exactly one entry to choose
C9_Witness ==
    /\ selectedDomain = getAllDomains[1]
    /\ showDomainSheet
    /\ filteredQuery # << >>
    /\ OfferedDomains = {getAllDomains[1]}

\* C10: the selected country is always an entry of the registry (the
\* first one at the start); a lookup that answers with a code the
\* registry does not have leaves the default selected, initialization
\* completes, and an identity of the default country is on display.
C10_SelectedCountryInRegistry ==
    /\ [](selectedCountry \in 1..Len(countries))
    /\ [](~isInitialized => selectedCountry = 1)
    /\ [][ (isMounted /\ lookup = "fetching" /\ lookup' = "done"
              /\ ipInfo'.country = "ZZ")
            => /\ selectedCountry' = 1
               /\ isInitialized'
               /\ userInfo'.firstName \in Range(countries[1].firstNamePool)
               /\ shown'.country = 1 ]_vars

\* after a lookup that named an unknown country: initialized, the default
\* still selected, an identity of the default country displayed
C10_Witness ==
    /\ isInitialized
    /\ ipInfo.country = "ZZ"
    /\ selectedCountry = 1
    /\ shown.country = 1
    /\ userInfo.firstName \in Range(US.firstNamePool)
    /\ PhoneMatches(userInfo.phone, 1)

\* C11: every generation request returns the page to the idle state:
\* once isGenerating is true it becomes false again when the deferred
\* callback has run, whether the call succeeded or a generator threw (as
\* long as the page is mounted), and with the flag false the generate
\* button accepts a further request.
C11_GeneratingEnds ==
    /\ (isMounted /\ isGenerating) ~> (~isGenerating \/ ~isMounted)
    /\ [][ (IdleCallbackRuns /\ idleQueue' = << >>) => ~isGenerating' ]_vars
    /\ []((isMounted /\ isInitialized /\ ~isGenerating) => ENABLED Generate)

\* the page is idle again after a call in which a generator threw
C11_Witness ==
    /\ isMounted /\ isInitialized
    /\ lastError = "ConfigError"
    /\ ~isGenerating
    /\ idleQueue = << >>
    /\ ENABLED Generate

\* C12: generation requests are serialized: while a generation is in
\* flight no trigger starts a second one, so at most one generation
\* callback is pending at any time.
C12_OnePendingCallback ==
    Len(idleQueue) <= 1

\* C13: a generation, from its request to its completion, does not write
\* to the store of saved identities and changes neither the selected
\* country, the selected domain nor the detected IP information: the
\* request sets isGenerating and resets copiedField, saveStatus and
\* isSaved, the completion changes the displayed identity (with isSaved
\* following its email) and isGenerating, and nothing else.
C13_GenerationFrame ==
    [][ /\ (GenerationRequested /\ lookup' = lookup
                /\ showCountrySheet' = showCountrySheet)
            => /\ UNCHANGED <<savedEmails, pendingSaves, saveTimer,
                              selectedCountry, selectedDomain, ipInfo,
                              userInfo, isInitialized, isMounted>>
               /\ isGenerating' /\ ~isSaved'
               /\ copiedField' = "null" /\ saveStatus' = "idle"
        /\ (idleQueue # << >> /\ idleQueue' = Tail(idleQueue))
            => /\ UNCHANGED <<savedEmails, pendingSaves, saveTimer,
                              selectedCountry, selectedDomain, ipInfo,
                              copiedField, saveStatus, isInitialized,
                              isMounted>>
               /\ isSaved' # isSaved => userInfo'.email # userInfo.email ]_vars

\* a generation has been requested and has completed while a save was
\* under way: the store is still empty, the save state was reset
C13_Witness ==
    /\ pendingSaves # << >>
    /\ savedEmails = {}
    /\ saveStatus = "idle"
    /\ ~isGenerating
    /\ userInfo.email # Head(pendingSaves).email

\* C14: while the page stays mounted, initialization completes:
\* isInitialized becomes true whether the lookup answers, fails, answers
\* with a body that does not parse, or does not answer before the 3000 ms
\* timer fires; and as soon as it is true the first identity has been
\* generated (displayed, unless the generators of the selected country
\* cannot produce one, and then the attempt has failed).
C14_InitializationCompletes ==
    /\ <>(isInitialized \/ ~isMounted)
    /\ [](isInitialized =>
            IF CallFails(selectedCountry, selectedDomain)
            THEN userInfo.firstName # << >> \/ lastError # "none"
            ELSE userInfo.firstName # << >>)
    /\ [][ (isMounted /\ lookup = "fetching" /\ lookup' # "fetching")
            => isInitialized' ]_vars

\* the lookup did not answer in time: the timer has ended the race, the
\* page is initialized and shows the first identity, of the default
\* country
C14_Witness ==
    /\ lookup = "timedout"
    /\ isMounted
    /\ isInitialized
    /\ userInfo.firstName \in Range(US.firstNamePool)
    /\ idleQueue = << >>
    /\ ~isGenerating

\* the lookup has delivered a country that is now the selected country
LookupCountryAccepted ==
    /\ answer # << >>
    /\ answer[1].accurate
    /\ getCountryConfig(answer[1].country) # NoCountry
    /\ selectedCountry = getCountryConfig(answer[1].country)

\* C15: a country that the lookup supplies is treated like a manual
\* selection: whenever it has been accepted as the selected country, the
\* page is initialized and no generation is pending, the identity on
\* display was generated from that country, in whatever order key presses
\* and the lookup's answer came.
C15_LookupCountryLikeManual ==
    (isMounted /\ isInitialized /\ idleQueue = << >> /\ LookupCountryAccepted
        /\ userInfo # emptyUserInfo)
        => shown.country = selectedCountry

\* C16: at startup the selected country changes only in the step in
\* which the answer of the lookup arrives, before the timeout and on the
\* mounted page, with a country that is not empty, is flagged accurate
\* and resolves to a registry entry; in every other case (inaccurate,
\* no country, error, timeout, answer after the timeout or after unmount)
\* it stays the first registry entry.
C16_CountryChangesOnlyOnAccurateAnswer ==
    /\ [](selectedCountry # 1 => (lookup = "done" /\ LookupCountryAccepted))
    /\ [][ selectedCountry' # selectedCountry
            => /\ isMounted
               /\ lookup = "fetching" /\ lookup' = "done"
               /\ answer = << >> /\ answer' # << >>
               /\ answer'[1].country # ""
               /\ answer'[1].accurate
               /\ getCountryConfig(answer'[1].country) # NoCountry
               /\ selectedCountry' = getCountryConfig(answer'[1].country) ]_vars
    /\ [][ lookup # "fetching" => selectedCountry' = selectedCountry ]_vars

\* an accurate answer naming France has made France the selected country
C16_Witness ==
    /\ selectedCountry = 2
    /\ lookup = "done"
    /\ answer = << [ip |-> "203.0.113.7", country |-> "FR", accurate |-> TRUE] >>
    /\ ipInfo.country = "FR"

\* C17: on the initialized page that shows an identity, selecting a
\* country with another code issues exactly one generation request (for
\* the new country), selecting the country that is selected already
\* issues none, and selecting a domain issues none and leaves the
\* displayed identity, its email included, as it is.
C17_SelectionRequests ==
    [][ (isInitialized /\ userInfo.firstName # << >>) =>
          /\ (showCountrySheet /\ CodeOf(selectedCountry') # CodeOf(selectedCountry))
                => /\ idleQueue' = Append(idleQueue,
                                          [country |-> selectedCountry',
                                           domain |-> selectedDomain])
                   /\ userInfo' = userInfo
          /\ (showCountrySheet /\ ~showCountrySheet'
                /\ CodeOf(selectedCountry') = CodeOf(selectedCountry))
                => (idleQueue' = idleQueue /\ userInfo' = userInfo)
          /\ selectedDomain' # selectedDomain
                => (idleQueue' = idleQueue /\ userInfo' = userInfo
                    /\ isGenerating' = isGenerating) ]_vars

\* a domain was selected after the displayed identity was generated: the
\* identity is still the one of the earlier choice, and nothing is pending
C17_Witness ==
    /\ isInitialized
    /\ userInfo.firstName # << >>
    /\ selectedDomain = getAllDomains[1]
    /\ shown.domain = random
    /\ idleQueue = << >>
    /\ ~isGenerating
    /\ selectedCountry = 2 /\ shown.country = 2

\* C18: whenever the page is initialized, no generation callback is
\* pending and the most recent generation did not fail, the identity on
\* display was generated from the country that is selected now: of
\* overlapping requests, the one issued last decides what is shown when
\* all have completed.
C18_DisplayedFromSelectedCountry ==
    (isMounted /\ isInitialized /\ idleQueue = << >> /\ lastError = "none"
        /\ userInfo # emptyUserInfo)
        => shown.country = selectedCountry

\* C19: isGenerating is true whenever a generation callback is pending.
C19_GeneratingWhilePending ==
    idleQueue # << >> => isGenerating

\* C20: whenever isSaved is true, the e-mail address on display is a key of
\* the saved store; a save timer that fires late never marks a newer,
\* unsaved identity as saved.
C20_SavedMeansStored ==
    (isMounted /\ isSaved) => userInfo.email \in savedEmails

\* a step in which a 300 ms save timer fires and calls addIdentity with the
\* record it closed over
IdentityWritten ==
    pendingSaves # << >> /\ pendingSaves' = Tail(pendingSaves)

\* C21: every record written to the saved store carries the countryCode
\* (and countryName) of the country its name and phone were generated from,
\* also when the save was requested while a generation triggered by a
\* country change was pending.
C21_RecordCarriesGenerationCountry ==
    [][ IdentityWritten =>
          CodeOf(Head(pendingSaves).country)
              = CodeOf(Head(pendingSaves).generatedFrom) ]_vars

\* C22: addIdentity is called at most once for each generated identity,
\* however save requests, generation requests, the 300 ms save delay and
\* the 2000 ms status timer interleave: no save timer that fires was
\* started for an identity for which a save had been accepted before.
C22_OneWritePerIdentity ==
    [][ IdentityWritten => ~Head(pendingSaves).repeated ]_vars

\* C23: a save request does nothing while saveStatus is 'saving', when
\* isSaved is true or when no email is displayed: a save timer is started
\* only when none of the three holds, and addIdentity is never called with
\* an empty email.  An accepted request eventually calls addIdentity with
\* the identity it was made for (the timers wait in line and leave it only
\* by firing, and timers keep firing until none is left); that call sets isSaved and shows 'saved', and
\* saveStatus eventually returns to 'idle'.
C23_SaveRequests ==
    /\ [][ Len(pendingSaves') > Len(pendingSaves)
            => /\ saveStatus # "saving" /\ ~isSaved /\ userInfo.email # << >>
               /\ pendingSaves'[Len(pendingSaves')].email = userInfo.email
               /\ saveStatus' = "saving" ]_vars
    /\ [][ IdentityWritten
            => /\ Head(pendingSaves).email # << >>
               /\ Head(pendingSaves).email \in savedEmails'
               /\ isMounted => (isSaved' /\ saveStatus' = "saved") ]_vars
    /\ [][ \/ pendingSaves' = pendingSaves
           \/ IdentityWritten
           \/ /\ Len(pendingSaves') > Len(pendingSaves)
              /\ SubSeq(pendingSaves', 1, Len(pendingSaves)) = pendingSaves ]_vars
    /\ []<><<IdentityWritten>>_vars \/ <>[](pendingSaves = << >>)
    /\ (saveStatus # "idle") ~> (saveStatus = "idle")

\* an accepted request was carried out, and a request made now is rejected
C23_Witness ==
    /\ isMounted
    /\ saveStatus = "saved" /\ isSaved
    /\ userInfo.email \in savedEmails
    /\ pendingSaves = << >>
    /\ ~ENABLED HandleSaveIdentity

\* a step in which a clipboard write settles
WriteSettles == Len(clipboardWrites') < Len(clipboardWrites)

\* a step in which a feedback timer fires
FeedbackTimerFires == Len(copyTimers') < Len(copyTimers)

\* C24: the copy feedback is set only when a clipboard write has succeeded,
\* and a write that failed leaves copiedField and the timer alone; at most
\* one feedback timer is pending; while copiedField is not null a timer is
\* pending, so copiedField always eventually returns to null; and a timer
\* that fires while feedback is shown is the one the latest copy started.
C24_CopyFeedback ==
    /\ [][ (copiedField' # copiedField /\ copiedField' # "null")
            => (WriteSettles /\ copyResult' = "written") ]_vars
    /\ [][ (WriteSettles /\ copyResult' = "rejected")
            => UNCHANGED <<copiedField, copyTimers>> ]_vars
    /\ [](Len(copyTimers) <= 1)
    /\ [](copiedField # "null" => copyTimers = << copiedField >>)
    /\ (copiedField # "null") ~> (copiedField = "null")
    /\ [][ (FeedbackTimerFires /\ copiedField # "null")
            => copyTimers = << copiedField >> ]_vars

\* feedback of a copy is shown and its timer pending, with an identity on
\* display, while the write of another copy has not settled
C24_Witness ==
    /\ copiedField = "password"
    /\ copyTimers = << "password" >>
    /\ clipboardWrites = << "email" >>
    /\ copyResult = "written"
    /\ userInfo.email # << >>

\* a step in which an inbox timer fires and opens a window
InboxOpens == Len(inboxTimers') < Len(inboxTimers)

\* C25: while inboxStatus is 'opening' further clicks are ignored; each
\* accepted click opens one inbox window when its 600 ms timer fires, which
\* returns inboxStatus to 'idle'; and the login opened is the local part of
\* the email that is displayed at the moment the window opens.
C25_InboxOpensDisplayedLogin ==
    [][ /\ Len(inboxTimers') > Len(inboxTimers) => inboxStatus = "idle"
        /\ InboxOpens =>
              /\ isMounted => inboxStatus' = "idle"
              /\ lastOpened' = << LocalPart(userInfo.email) >> ]_vars

\* C26: the domain search is debounced.  The applied filter changes only
\* when a debounce timer fires, to the text that timer was set for, which
\* is the text the search box still holds, and visibleCount is then 50; a
\* text that is replaced loses its timer, so it is never applied; at most
\* one debounce timer is pending; and once typing stops the timer fires,
\* after which filteredQuery equals searchQuery.
C26_SearchDebounced ==
    /\ [][ (filteredQuery' # filteredQuery /\ showDomainSheet')
            => /\ debounceTimer = << searchQuery >>
               /\ filteredQuery' = searchQuery
               /\ searchQuery' = searchQuery
               /\ visibleCount' = pageSize
               /\ debounceTimer' = << >> ]_vars
    /\ [][ (searchQuery' # searchQuery /\ showDomainSheet')
            => debounceTimer' = << searchQuery' >> ]_vars
    /\ [](Len(debounceTimer) <= 1)
    /\ []((showDomainSheet /\ debounceTimer = << >>)
            => filteredQuery = searchQuery)
    /\ (debounceTimer # << >>) ~> (debounceTimer = << >>)

\* the search for the letter a is applied: no timer is pending and the
\* first page of more than a page of matches is shown
C26_Witness ==
    /\ showDomainSheet
    /\ debounceTimer = << >>
    /\ filteredQuery = Str(<< "a" >>)
    /\ searchQuery = filteredQuery
    /\ visibleCount = pageSize
    /\ Len(filteredDomains) > pageSize

\* two characters that are equal up to the case of an ASCII letter
SameLetter(a, b) ==
    \/ a = b
    \/ IsUpper(a) /\ a + 32 = b
    \/ IsUpper(b) /\ b + 32 = a

\* the domain contains the query, whatever the case of its letters
Matches(d, query) ==
    \E k \in 0..(Len(d) - Len(query)) :
        \A j \in 1..Len(query) : SameLetter(d[k + j], query[j])

\* the domains of a registry that match a query, in the registry's order
MatchingIn(registry, query) ==
    LET Test(d) == Matches(d, query) IN SelectSeq(registry, Test)

\* the same for the registry of several pages and the texts of the search
\* box, tabulated
MatchingListed == [ query \in Queries |-> MatchingIn(ListedDomains, query) ]

\* the domains of the registry that match the applied query, in its order
MatchingDomains ==
    IF allDomains = ListedDomains /\ filteredQuery \in Queries
    THEN MatchingListed[filteredQuery]
    ELSE MatchingIn(allDomains, filteredQuery)

\* a step in which the list shows more domains of the same result
LoadMoreStep ==
    /\ showDomainSheet /\ showDomainSheet'
    /\ debounceTimer' = debounceTimer
    /\ visibleCount' # visibleCount

\* C27: in the domain list the visible domains are always a prefix, in
\* registry order, of the domains that contain the applied query whatever
\* the case (all domains when it is empty); a load-more step raises
\* visibleCount, by at most 50 and not above the number of those domains;
\* with no search pending, load-more steps eventually make all of them
\* visible; and "random" is offered exactly when the applied query is empty.
C27_VisibleDomains ==
    /\ [](/\ Len(visibleDomains) <= Len(MatchingDomains)
          /\ visibleDomains = SubSeq(MatchingDomains, 1, Len(visibleDomains))
          /\ filteredQuery = << >> => MatchingDomains = allDomains)
    /\ [][ LoadMoreStep
            => /\ visibleCount' > visibleCount
               /\ visibleCount' <= visibleCount + 50
               /\ visibleCount' <= Len(MatchingDomains) ]_vars
    /\ \/ []<>(~showDomainSheet \/ debounceTimer # << >>)
       \/ <>[](visibleDomains = MatchingDomains)
    /\ [](showDomainSheet
            => (random \in OfferedDomains <=> filteredQuery = << >>))

\* the search for the letter a is applied and load-more steps have made
\* every match visible, more than a page and fewer than the registry
C27_Witness ==
    /\ showDomainSheet
    /\ filteredQuery = Str(<< "a" >>)
    /\ visibleCount > pageSize
    /\ visibleDomains = MatchingDomains
    /\ Len(visibleDomains) < Len(allDomains)
    /\ random \notin OfferedDomains

====
